---------------------------- MODULE Spec2Model ----------------------------
(***************************************************************************)
(* State-machine model of the ACES heater control unit firmware            *)
(* (ACES_HCU/main.c, HCU_Funcs.c, HCU_Funcs.h).                             *)
(*                                                                         *)
(* The foreground is main()'s endless loop: tempConversion() (six ADC      *)
(* conversions, then tempHeaterHelper(), which may call change_timers()),  *)
(* then flowMeter() while opMode = 1, then the pwm_count bookkeeping.      *)
(* The background is the three interrupt handlers.  The foreground         *)
(* position is pc; a handler runs to completion between two foreground     *)
(* steps (the AVR clears the global interrupt flag inside a handler).      *)
(*                                                                         *)
(* Registers are sets of the names of their bits that are 1; ports are     *)
(* sets of pin numbers that are high.  Temperatures are integers in units  *)
(* of 1/1280 degF, in which the conversion of HCU_Funcs.c:181-182 is       *)
(* exact.  output_count, measured_flow, flow_save and pulse_count_array    *)
(* are written and never read by the program; they are not state here.     *)
(***************************************************************************)
EXTENDS Integers, FiniteSets, Sequences, TLC

VARIABLES
    pc,             \* foreground position
    i,              \* loop index of tempConversion / tempHeaterHelper
    opMode,         \* 0 heating, 1 pumping, 2 pumping has finished
    desired_temp,   \* satisfied bitmask (bits 0..5)
    saveTemps,      \* [0..5 -> temperature in 1/1280 degF]
    analogIn,       \* raw code present on each ADC input 0..7
    ADMUX,          \* selected ADC channel (MUX2..MUX0)
    PORTB, PORTD,   \* output ports
    TCCR0, TCCR1A, TCCR1B, TCCR2,   \* timer control registers
    TIMSK, TIFR, GICR,              \* interrupt masks and flags
    OCR1B, ICR1,    \* pump PWM threshold and period
    pump_lock, pump_count, pulse_count,
    alive_counter, pwm_count,
    ticks,          \* interrupts serviced so far (bounded by MaxTicks)
    ctCalls,        \* number of calls of change_timers so far
    everHot,        \* channels that have had a reading above their setpoint
    accepted,       \* edges ISR(INT2_vect) has counted since pulse_count was cleared
    run,            \* ticks the alive LED has kept the level a handler gave it
                    \* in the present mode; -1 when the level was set otherwise
    passLog,        \* what the present scan pass has done so far, in order
    held            \* << PORTB, PORTD >> as read by an assign_bit() that has not
                    \* written yet, << >> when no such call is under way

vars == << pc, i, opMode, desired_temp, saveTemps, analogIn, ADMUX, PORTB, PORTD,
           TCCR0, TCCR1A, TCCR1B, TCCR2, TIMSK, TIFR, GICR, OCR1B, ICR1,
           pump_lock, pump_count, pulse_count, alive_counter, pwm_count,
           ticks, ctCalls, everHot, accepted, run, passLog, held >>

---------------------------------------------------------------------------
(* Bounds of the model *)

\* Interrupts serviced in one run, where the handlers are counted.
MaxTicks == 2

\* The analog inputs during one scan pass.  Raw code 87 converts to a
\* temperature below and 88 to one above the 10 degF setpoints; 1058 converts
\* below and 1059 above the 1000 degF setpoints.  ADCH and ADCL are read as two
\* 8-bit registers (HCU_Funcs.c:175-177), so the code admits results up to
\* 65535; a right-adjusted 10-bit conversion delivers at most 1023.
Scene(hot) == [c \in 0..7 |-> IF c \in hot THEN 1059 ELSE 87]

Scenes == { Scene({}), Scene(0..7), Scene({0, 1, 2}), Scene({3, 4, 5, 6, 7}) }

HotScenes == { Scene(0..7) }

\* Pulse edges counted in one flow window.
NominalPulses == { 141, 143 }

FlowPulses == { 0, 27, 141, 255 }

\* A count at the limit of the allowed error, the count just beyond it, and a
\* count 128 below nominal.
LedPulses == { 13, 144, 145 }

\* The nominal count and the largest count of the 8-bit counter, to which the
\* single edges of ISR_INT2 are added.
EdgePulses == { 141, 255 }

\* One cold and one warm scene, and the nominal count, for the heartbeat runs.
BeatScenes == { Scene({}), Scene(0..7) }

BeatPulses == { 141 }

\* The largest result of the 10-bit converter (HCU_Funcs.c:147).
MaxCode == 1023

\* Two neighbouring codes on the first two inputs, for every code of the
\* converter.
ConvScenes ==
    { [c \in 0..7 |-> IF c = 0 THEN a ELSE a + 1] : a \in 0..(MaxCode - 1) }

\* The same code on every input: the least, one just above the 10 degF
\* setpoints, and the greatest the converter delivers.
TenBitCodes == { 0, 88, MaxCode }

TenBitScenes == { [c \in 0..7 |-> v] : v \in TenBitCodes }

\* The error of the float arithmetic of lines 181-182, in units of 1/1280 degF:
\* the results are below 1024 degF, where a float is exact to 1/16384 degF.
RoundErr == 1

---------------------------------------------------------------------------
(* Project constants, HCU_Funcs.h *)

TempBat == 10
TempHopper == 10
TempECU == 1000
TempFLine1 == 10
TempFLine2 == 1000
TempESB == 10
ECU_present == 0

Warm_LED == 1
ECU_pin == 3
BatPin == 0
HopperPin == 1
FLine1Pin == 2
ESB_Pin == 3
PD4 == 4
Alive_LED == 5
Fuel_LED == 6
Fline2Pin == 7

K_factor == 91387
hand_pwm == 7

\* change_timers(): the windows of the pumping phase, the windows of the lock-out
\* and the period of the pump PWM (HCU_Funcs.c:498, 516, 511).
PumpWindows == 39
LockWindows == 5
PwmPeriod == 1000

\* duty_cycle = 0.55 (HCU_Funcs.c:50), in percent.
duty_cycle == 55

---------------------------------------------------------------------------
(* Arithmetic of the C types *)

ToUint8(x) == x % 256

ToUint16(x) == x % 65536

\* Conversion of an int to int8_t (two's complement, as avr-gcc defines it).
ToInt8(x) == ((x + 128) % 256) - 128

\* Truncation of the quotient n / d toward zero, d > 0: a float-to-integer cast.
TruncDiv(n, d) == IF n >= 0 THEN n \div d ELSE -((-n) \div d)

\* v | (1 << b)
SetBit(v, b) == IF (v \div (2 ^ b)) % 2 = 1 THEN v ELSE v + 2 ^ b

\* assign_bit(sfr, bit, val) on a register held as the set of its 1 bits.
assign_bit(sfr, bit, val) == IF val # 0 THEN sfr \cup {bit} ELSE sfr \ {bit}

\* assign_bit(&TIFR, bit, 1): TIFR is read, or-ed and written back, and a flag
\* of TIFR is cleared by writing 1 to it, so every flag that was set is cleared.
assign_flag(flags, bit) == flags \ (flags \cup {bit})

---------------------------------------------------------------------------
(* Calibration computed by Initial(), HCU_Funcs.c:53-56 *)

\* pulse_flow = (fuelFlow / density) * K_factor * max_time / 1000 with
\* fuelFlow = 4.8, density = 0.81, max_time / 1000 = 512 / 1953125:
\* 141.96 pulses, rounded down by the cast to uint8_t.
desired_pulses == ((((480 * K_factor) \div 81) * 512) \div 1953125) % 256

\* (uint8_t)(desired_pulses * (fuelError / fuelFlow)), fuelError = 0.13.
pulse_error_allow == (desired_pulses * 13) \div 480

\* Unit of the temperatures: 1/1280 degF.
TempUnit == 1280

\* The conversion of the low byte of the result alone.
ActTempLowByte(result) == 1305 * (result % 256) - 101888

\* act_temp = 0.0048828125 * result * 208.8 - 79.6 = (1305 * result - 101888) / 1280
ActTemp(result) == 1305 * result - 101888

\* -100.0 degF, the value Initial() stores in every saveTemps slot.
ColdStart == -100 * TempUnit

\* Lines 73-79: Initial() stores -100.0 at the indices 0 to 6 of saveTemps.
InitStores == [k \in 1..7 |-> << "init", k - 1 >>]

Setpoint(ch) ==
    CASE ch = 0 -> TempBat * TempUnit
      [] ch = 1 -> TempHopper * TempUnit
      [] ch = 2 -> TempECU * TempUnit
      [] ch = 3 -> TempFLine1 * TempUnit
      [] ch = 4 -> TempFLine2 * TempUnit
      [] ch = 5 -> TempESB * TempUnit

---------------------------------------------------------------------------
(* Initial(), HCU_Funcs.c:38-113: the state when main() enters its loop *)

InitWith(satisfied, counter, pulses) ==
    /\ pc = "scan_begin"
    /\ i = 0
    /\ opMode = 0
    /\ desired_temp = satisfied
    /\ saveTemps = [ch \in 0..5 |-> ColdStart]
    /\ analogIn = Scene({})
    /\ ADMUX = 0
    /\ PORTB = {}
    /\ PORTD = {BatPin, HopperPin, FLine1Pin, ESB_Pin}
    /\ TCCR0 = {"WGM01", "WGM00", "COM01", "COM00", "CS02"}
    /\ TCCR2 = {"WGM21", "WGM20", "COM21", "COM20", "CS22"}
    /\ TCCR1A = {}
    /\ TCCR1B = {"CS11"}
    /\ TIMSK = {"TOIE1"}
    /\ TIFR = {}
    /\ GICR = {}
    /\ OCR1B = 0
    /\ ICR1 = 0
    /\ pump_lock = 0
    /\ pump_count = 0
    /\ pulse_count = pulses
    /\ alive_counter = counter
    /\ pwm_count = 0
    /\ ticks = 0
    /\ ctCalls = 0
    /\ everHot = {}
    /\ accepted = 0
    /\ run = -1
    /\ passLog = InitStores
    /\ held = << >>

\* desired_temp = 0 (line 56); alive_counter and pulse_count are zeroed at start.
Init == InitWith(0, 0, 0)

\* The bytes of the float -100.0 (0xC2C80000) that line 79 stores behind the
\* six elements of saveTemps.
OverrunBytes == { 0, 194, 200 }

\* The state after Initial() when the store of line 79 has fallen on one of
\* the 8-bit globals: any of them may lie behind the array.
InitOverrun ==
    \E b \in OverrunBytes :
        \/ InitWith(b, 0, 0)
        \/ InitWith(0, b, 0)
        \/ InitWith(0, 0, b)

---------------------------------------------------------------------------
(* tempConversion(), HCU_Funcs.c:160-205 *)

\* Lines 163-165: the multiplexer is set to channel 0 and the loop starts.
\* The analog inputs of this pass are one of the scenes.
ScanBegin(scenes) ==
    /\ pc = "scan_begin"
    /\ \E s \in scenes : analogIn' = s
    /\ ADMUX' = 0
    /\ i' = 0
    /\ passLog' = << >>
    /\ pc' = "convert"
    /\ UNCHANGED << opMode, desired_temp, saveTemps, PORTB, PORTD, TCCR0, TCCR1A,
                    TCCR1B, TCCR2, TIMSK, TIFR, GICR, OCR1B, ICR1, pump_lock,
                    pump_count, pulse_count, alive_counter, pwm_count, ticks,
                    ctCalls, everHot, accepted, run, held >>

\* Lines 185-195: the channel selected after iteration k.  MUX2..MUX0 are set
\* to k + 1; after k = 3 MUX1 is set again, and the clearing of MUX1 when
\* k = 4 is overwritten by the three assignments that follow it.
NextChannel(k) == IF k = 3 THEN 6 ELSE (k + 1) % 8

\* Lines 169-198, one iteration: conversion of the selected channel, the
\* temperature stored in saveTemps[i], the multiplexer advanced.
Convert ==
    /\ pc = "convert"
    /\ saveTemps' = [saveTemps EXCEPT ![i] = ActTemp(analogIn[ADMUX])]
    /\ everHot' = IF ActTemp(analogIn[ADMUX]) > Setpoint(i)
                  THEN everHot \cup {i} ELSE everHot
    /\ ADMUX' = NextChannel(i)
    /\ passLog' = Append(passLog, << "convert", i >>)
    /\ IF i < 5 THEN /\ i' = i + 1
                     /\ pc' = "convert"
                ELSE /\ i' = 0
                     /\ pc' = "heater"
    /\ UNCHANGED << opMode, desired_temp, analogIn, PORTB, PORTD, TCCR0, TCCR1A,
                    TCCR1B, TCCR2, TIMSK, TIFR, GICR, OCR1B, ICR1, pump_lock,
                    pump_count, pulse_count, alive_counter, pwm_count, ticks,
                    ctCalls, accepted, run, held >>

\* The delay made in every mode.
DelayedAlways(mode) == TRUE

\* Line 202: the delay is made unless opMode = 1.
Delayed(mode) == mode # 1

\* Lines 202-203, after tempHeaterHelper() has returned: _delay_ms(250) begins
\* unless opMode = 1, in which case tempConversion() returns to main().
SettleDelay ==
    /\ pc = "delay"
    /\ pc' = IF Delayed(opMode) THEN "settle" ELSE "main_flow"
    /\ UNCHANGED << i, opMode, desired_temp, saveTemps, analogIn, ADMUX, PORTB,
                    PORTD, TCCR0, TCCR1A, TCCR1B, TCCR2, TIMSK, TIFR, GICR, OCR1B,
                    ICR1, pump_lock, pump_count, pulse_count, alive_counter,
                    pwm_count, ticks, ctCalls, everHot, accepted, run, passLog, held >>

\* Line 203: the 250 ms are over; tempConversion() returns to main().
DelayElapsed ==
    /\ pc = "settle"
    /\ pc' = "main_flow"
    /\ UNCHANGED << i, opMode, desired_temp, saveTemps, analogIn, ADMUX, PORTB,
                    PORTD, TCCR0, TCCR1A, TCCR1B, TCCR2, TIMSK, TIFR, GICR, OCR1B,
                    ICR1, pump_lock, pump_count, pulse_count, alive_counter,
                    pwm_count, ticks, ctCalls, everHot, accepted, run, passLog, held >>

---------------------------------------------------------------------------
(* tempHeaterHelper(), HCU_Funcs.c:226-353 *)

\* The port registers as the assign_bit() of a heater case has read them:
\* *sfr |= val and *sfr &= val (lines 468, 473) read the register, change the
\* bit and write the register back, and an interrupt may fall in between.
ReadB == IF held = << >> THEN PORTB ELSE held[1]

ReadD == IF held = << >> THEN PORTD ELSE held[2]

\* The read of an assign_bit() on a port in the heater case that comes next.
\* Whether the build reads and writes in separate instructions is not fixed by
\* the source; the step is taken or not.
AssignBitLoad ==
    /\ pc = "heater"
    /\ held = << >>
    /\ held' = << PORTB, PORTD >>
    /\ UNCHANGED << pc, i, opMode, desired_temp, saveTemps, analogIn, ADMUX, PORTB,
                    PORTD, TCCR0, TCCR1A, TCCR1B, TCCR2, TIMSK, TIFR, GICR, OCR1B,
                    ICR1, pump_lock, pump_count, pulse_count, alive_counter,
                    pwm_count, ticks, ctCalls, everHot, accepted, run, passLog >>

\* Cases 1, 3 and 5 (lines 243-251, 288-296, 330-338): a heater on a pin of
\* PORTD, switched on below the setpoint, off and marked satisfied above it.
PinHeater(ch, pin) ==
    /\ PORTD' = IF saveTemps[ch] < Setpoint(ch) THEN assign_bit(ReadD, pin, 1)
                ELSE IF saveTemps[ch] > Setpoint(ch) THEN assign_bit(ReadD, pin, 0)
                ELSE PORTD
    /\ desired_temp' = IF saveTemps[ch] > Setpoint(ch)
                       THEN SetBit(desired_temp, ch) ELSE desired_temp
    /\ UNCHANGED << PORTB, TCCR0, TCCR2 >>

\* The battery case with its cut-off made only in mode 0, as case 4 makes it.
BatteryHeaterHeatingOnly ==
    /\ PORTD' = IF saveTemps[0] > Setpoint(0) /\ opMode = 0
                THEN assign_bit(ReadD, BatPin, 0)
                ELSE IF saveTemps[0] < Setpoint(0) THEN assign_bit(ReadD, BatPin, 1)
                ELSE PORTD
    /\ desired_temp' = IF saveTemps[0] > Setpoint(0) /\ opMode = 0
                       THEN SetBit(desired_temp, 0) ELSE desired_temp
    /\ UNCHANGED << PORTB, TCCR0, TCCR2 >>

\* Case 0 (lines 231-241): the batteries; the test for too hot comes first.
BatteryHeater ==
    /\ PORTD' = IF saveTemps[0] > Setpoint(0) THEN assign_bit(ReadD, BatPin, 0)
                ELSE IF saveTemps[0] < Setpoint(0) THEN assign_bit(ReadD, BatPin, 1)
                ELSE PORTD
    /\ desired_temp' = IF saveTemps[0] > Setpoint(0)
                       THEN SetBit(desired_temp, 0) ELSE desired_temp
    /\ UNCHANGED << PORTB, TCCR0, TCCR2 >>

\* Case 2 (lines 253-286): the ECU, heated by the PWM of timer 0 in mode 0 and
\* by the hand-made pattern on ECU_pin in mode 2.
EcuHeater ==
    /\ IF saveTemps[2] < Setpoint(2)
       THEN /\ TCCR0' = IF opMode = 0
                        THEN TCCR0 \cup {"COM01", "COM00", "CS02"} ELSE TCCR0
            /\ PORTB' = IF opMode = 2
                        THEN assign_bit(ReadB, ECU_pin,
                                        IF pwm_count = hand_pwm THEN 1 ELSE 0)
                        ELSE PORTB
            /\ desired_temp' = desired_temp
       ELSE IF saveTemps[2] > Setpoint(2)
       THEN /\ TCCR0' = IF opMode # 1
                        THEN TCCR0 \ {"CS02", "COM01", "COM00"} ELSE TCCR0
            /\ PORTB' = assign_bit(ReadB, ECU_pin, 0)
            /\ desired_temp' = IF opMode # 1
                               THEN SetBit(desired_temp, 2) ELSE desired_temp
       ELSE UNCHANGED << TCCR0, PORTB, desired_temp >>
    /\ UNCHANGED << PORTD, TCCR2 >>

\* Case 4 (lines 298-328): fuel line 2, heated by the PWM of timer 2 in mode 0
\* and by the hand-made pattern on Fline2Pin in mode 2.
FLine2Heater ==
    /\ IF saveTemps[4] < Setpoint(4)
       THEN /\ TCCR2' = IF opMode = 0
                        THEN TCCR2 \cup {"COM21", "COM20", "CS22"} ELSE TCCR2
            /\ PORTD' = IF opMode = 2
                        THEN assign_bit(ReadD, Fline2Pin,
                                        IF pwm_count = hand_pwm THEN 1 ELSE 0)
                        ELSE PORTD
            /\ desired_temp' = desired_temp
       ELSE IF saveTemps[4] > Setpoint(4) /\ opMode = 0
       THEN /\ TCCR2' = TCCR2 \ {"CS22", "COM21", "COM20"}
            /\ PORTD' = assign_bit(ReadD, Fline2Pin, 0)
            /\ desired_temp' = SetBit(desired_temp, 4)
       ELSE UNCHANGED << TCCR2, PORTD, desired_temp >>
    /\ UNCHANGED << PORTB, TCCR0 >>

\* The loop of line 228 ended one channel early.
NextCaseShort(k) == k + 1 < 5

\* Line 228: after the case of channel k the loop goes on while k + 1 < 6.
NextCase(k) == k + 1 < 6

\* Lines 228-341, one iteration of the loop: the case of channel i.
HeaterCase ==
    /\ pc = "heater"
    /\ CASE i = 0 -> BatteryHeater
         [] i = 1 -> PinHeater(1, HopperPin)
         [] i = 2 -> EcuHeater
         [] i = 3 -> PinHeater(3, FLine1Pin)
         [] i = 4 -> FLine2Heater
         [] i = 5 -> PinHeater(5, ESB_Pin)
    /\ passLog' = Append(passLog, << "evaluate", i >>)
    /\ held' = << >>
    /\ run' = IF (Alive_LED \in PORTD') # (Alive_LED \in PORTD) THEN -1 ELSE run
    /\ IF NextCase(i) THEN /\ i' = i + 1
                           /\ pc' = "heater"
                      ELSE /\ i' = 0
                           /\ pc' = "check"
    /\ UNCHANGED << opMode, saveTemps, analogIn, ADMUX, TCCR1A, TCCR1B, TIMSK,
                    TIFR, GICR, OCR1B, ICR1, pump_lock, pump_count, pulse_count,
                    alive_counter, pwm_count, ticks, ctCalls, everHot, accepted >>

\* The check with a bit test in place of the comparison: some bit is set.
AllSatisfiedAny(mask) == mask # 0

\* Line 343: every one of the six bits is set.
AllSatisfied(mask) == mask = 63

\* The guard of line 350 left out, and written as the test of lines 202 and 273.
EdgeGuardAlways(mode) == TRUE

EdgeGuardNotPumping(mode) == mode # 1

\* Line 350: change_timers() is called only in mode 0.
EdgeGuard(mode) == mode = 0

\* Lines 343-352: the check made once the loop is over, and the call of
\* change_timers(), whose first statement (line 496) sets the mode.
SatisfiedCheck ==
    /\ pc = "check"
    /\ passLog' = Append(passLog, << "check", i >>)
    /\ IF AllSatisfied(desired_temp) /\ EdgeGuard(opMode)
       THEN /\ opMode' = 1
            /\ ctCalls' = ctCalls + 1
            /\ run' = -1
            /\ pc' = "ct_led"
       ELSE /\ pc' = "delay"
            /\ UNCHANGED << opMode, ctCalls, run, held >>
    /\ UNCHANGED << i, desired_temp, saveTemps, analogIn, ADMUX, PORTB, PORTD,
                    TCCR0, TCCR1A, TCCR1B, TCCR2, TIMSK, TIFR, GICR, OCR1B, ICR1,
                    pump_lock, pump_count, pulse_count, alive_counter, pwm_count,
                    ticks, everHot, accepted, held >>

---------------------------------------------------------------------------
(* change_timers(), HCU_Funcs.c:494-555, the branch taken with ECU_present = 0. *)
(* Its statements are grouped by the interrupt that may still arrive between    *)
(* them: timer 1 until line 506, timer 2 from line 530 on.                      *)

\* Line 497: the warming LED is switched on.
ChangeTimersLed ==
    /\ pc = "ct_led"
    /\ PORTB' = assign_bit(PORTB, Warm_LED, 1)
    /\ pc' = "ct_pump"
    /\ UNCHANGED << i, opMode, desired_temp, saveTemps, analogIn, ADMUX, PORTD,
                    TCCR0, TCCR1A, TCCR1B, TCCR2, TIMSK, TIFR, GICR, OCR1B, ICR1,
                    pump_lock, pump_count, pulse_count, alive_counter, pwm_count,
                    ticks, ctCalls, everHot, accepted, run, passLog, held >>

\* Line 514: OCR1B = ICR1 - (int)(ICR1 * duty_cycle).
InitialDuty(period) == period - ((period * duty_cycle) \div 100)

\* The overflow interrupt of timer 1 left enabled.
HeartbeatMaskKept(timsk) == timsk

\* Line 506: the overflow interrupt of timer 1 is disabled.
HeartbeatMask(timsk) == assign_bit(timsk, "TOIE1", 0)

\* Lines 498-529: timer 1 becomes the PWM of the pump, timer 0 is stopped, the
\* alive LED is switched on.
ChangeTimersPump ==
    /\ pc = "ct_pump"
    /\ pump_count' = PumpWindows
    /\ TIMSK' = HeartbeatMask(TIMSK)
    /\ TCCR1B' = ((TCCR1B \ {"CS11"}) \cup {"WGM12", "WGM13"}) \cup {"CS10"}
    /\ TCCR1A' = TCCR1A \cup {"WGM11", "COM1B1", "COM1B0"}
    /\ ICR1' = PwmPeriod
    /\ OCR1B' = InitialDuty(PwmPeriod)
    /\ pump_lock' = LockWindows
    /\ TCCR0' = {}
    /\ PORTD' = assign_bit(PORTD, Alive_LED, 1)
    /\ run' = -1
    /\ pc' = "ct_timer2"
    /\ UNCHANGED << i, opMode, desired_temp, saveTemps, analogIn, ADMUX, PORTB,
                    TCCR2, TIFR, GICR, pulse_count, alive_counter, pwm_count,
                    ticks, ctCalls, everHot, accepted, passLog, held >>

\* Lines 530-531: the overflow interrupt of timer 2 is enabled.
ChangeTimersEnable ==
    /\ pc = "ct_timer2"
    /\ TIMSK' = TIMSK \cup {"TOIE2"}
    /\ pc' = "ct_alive"
    /\ UNCHANGED << i, opMode, desired_temp, saveTemps, analogIn, ADMUX, PORTB,
                    PORTD, TCCR0, TCCR1A, TCCR1B, TCCR2, TIFR, GICR, OCR1B, ICR1,
                    pump_lock, pump_count, pulse_count, alive_counter, pwm_count,
                    ticks, ctCalls, everHot, accepted, run, passLog, held >>

\* Lines 532-533: the hand-made prescaler is reset, timer 2 started with
\* TCCR2 = 0x07; change_timers() and tempHeaterHelper() return.
ChangeTimersAlive ==
    /\ pc = "ct_alive"
    /\ alive_counter' = 0
    /\ TCCR2' = {"CS22", "CS21", "CS20"}
    /\ run' = -1
    /\ pc' = "delay"
    /\ UNCHANGED << i, opMode, desired_temp, saveTemps, analogIn, ADMUX, PORTB,
                    PORTD, TCCR0, TCCR1A, TCCR1B, TIMSK, TIFR, GICR, OCR1B, ICR1,
                    pump_lock, pump_count, pulse_count, pwm_count, ticks, ctCalls,
                    everHot, accepted, passLog, held >>

---------------------------------------------------------------------------
(* flowMeter(), HCU_Funcs.c:373-444 *)

\* The call made in every mode but the warming mode.
FlowCalledNotHeating == ECU_present = 0 /\ opMode # 0

\* main.c:17: flowMeter() is called when the dummy ECU is fitted and opMode = 1.
FlowCalled == ECU_present = 0 /\ opMode = 1

\* Timer 0 left without a clock.
StartWindowTimerStopped(tccr0) == tccr0 \ {"CS02", "CS01", "CS00"}

\* Lines 383-385: timer 0 is started with a prescaler of 1024.
StartWindowTimer(tccr0) ==
    assign_bit(assign_bit(assign_bit(tccr0, "CS02", 1), "CS01", 0), "CS00", 1)

\* Lines 376-385: the counter is cleared, INT2 enabled, timer 0 started.
FlowOpen ==
    /\ pc = "main_flow"
    /\ FlowCalled
    /\ pulse_count' = 0
    /\ GICR' = GICR \cup {"INT2"}
    /\ TIFR' = assign_flag(TIFR, "TOV1")
    /\ TCCR0' = StartWindowTimer(TCCR0)
    /\ accepted' = 0
    /\ pc' = "flow_wait"
    /\ UNCHANGED << i, opMode, desired_temp, saveTemps, analogIn, ADMUX, PORTB,
                    PORTD, TCCR1A, TCCR1B, TCCR2, TIMSK, OCR1B, ICR1, pump_lock,
                    pump_count, alive_counter, pwm_count, ticks, ctCalls, everHot, run, passLog, held >>

\* Line 387 waits for the overflow flag of timer 0.  Meanwhile the flow meter
\* delivers n rising edges, each serviced by ISR(INT2_vect) (lines 563-566,
\* pulse_count++), and then timer 0 overflows.
FlowWindow(pulses) ==
    /\ pc = "flow_wait"
    /\ "INT2" \in GICR
    /\ TCCR0 \cap {"CS02", "CS01", "CS00"} # {}
    /\ "TOV0" \notin TIFR
    /\ \E n \in pulses : /\ pulse_count' = ToUint8(pulse_count + n)
                          /\ accepted' = accepted + n
    /\ TIFR' = TIFR \cup {"TOV0"}
    /\ UNCHANGED << pc, i, opMode, desired_temp, saveTemps, analogIn, ADMUX, PORTB,
                    PORTD, TCCR0, TCCR1A, TCCR1B, TCCR2, TIMSK, GICR, OCR1B, ICR1,
                    pump_lock, pump_count, alive_counter, pwm_count, ticks,
                    ctCalls, everHot, run, passLog, held >>

\* Line 392: int8_t pulse_error = desired_pulses - pulse_count.
PulseError(count) == ToInt8(desired_pulses - count)

\* Lines 433-434: change / 3.0 cut to an integer, where
\* change = pulse_error * V_per_pulse * ICR1 / pump_tot_V and
\* V_per_pulse * 1000 / 22.2 / 3 = 0.194230: the quotient below equals the
\* float result for every pulse_error in -128..127.
DutyStep(err) == TruncDiv(err * 19423, 100000)

\* The cast (uint16_t) of line 434.  The conversion of a negative float to an
\* unsigned type is undefined: the builds either wrap it or deliver 0.
UnsignedCast(step) == IF step >= 0 THEN {step} ELSE {ToUint16(step), 0}

\* Lines 437-442: the fuel LED, steady within the allowed error, else toggled.
FuelLed(port, err) ==
    IF ToInt8(IF err < 0 THEN -err ELSE err) <= pulse_error_allow
    THEN port \cup {Fuel_LED}
    ELSE IF Fuel_LED \in port THEN port \ {Fuel_LED} ELSE port \cup {Fuel_LED}

\* The test made on the count of the window, as the comment of line 403 has it.
ExhaustedOnZeroPulses(count, pulses) == pulses = 0

\* Line 403: the test that ends the pumping, made when the lock is over.
Exhausted(count, pulses) == count = 0

\* The end of the pumping with the heaters left as they are.
ExhaustPortDHold(port) == ((port \ {PD4}) \cup {Fuel_LED}) \cup {Alive_LED}

\* Lines 412-424: the pins of PORTD when the pumping ends: the pump pin and
\* the five heaters low, the fuel LED and the alive LED on.
ExhaustPortD(port) ==
    ((port \ {PD4, BatPin, HopperPin, FLine1Pin, ESB_Pin, Fline2Pin})
        \cup {Fuel_LED}) \cup {Alive_LED}

\* Line 425: the pin of the ECU heater low.
ExhaustPortB(port) == assign_bit(port, ECU_pin, 0)

\* The lock never taken.
LockedNever(lock) == FALSE

\* Lines 400-402: the pump lock is counted down and the duty left alone.
Locked(lock) == lock # 0

\* INT2 left enabled when the window is over.
WindowLeftOpen(gicr) == gicr

\* Line 389: INT2 is disabled.
WindowShut(gicr) == assign_bit(gicr, "INT2", 0)

\* Lines 387-443: the window is over; INT2 is disabled, then one of the three
\* branches: lock-out, exhaustion, adjustment of the duty.
FlowClose ==
    /\ pc = "flow_wait"
    /\ "TOV0" \in TIFR
    /\ GICR' = WindowShut(GICR)
    /\ pump_count' = pump_count - 1
    /\ IF Locked(pump_lock)
       THEN /\ pump_lock' = pump_lock - 1
            /\ UNCHANGED << opMode, PORTB, PORTD, TCCR1A, TCCR1B, TCCR2, OCR1B,
                            alive_counter, run >>
       ELSE IF Exhausted(pump_count - 1, pulse_count)
       THEN /\ TCCR1B' = TCCR1B \ {"CS10", "WGM12", "WGM13"}
            /\ TCCR1A' = TCCR1A \ {"COM1B1", "COM1B0"}
            /\ PORTD' = ExhaustPortD(PORTD)
            /\ PORTB' = ExhaustPortB(PORTB)
            /\ alive_counter' = 0
            /\ TCCR2' = {"CS22", "CS21"}
            /\ opMode' = 2
            /\ run' = -1
            /\ UNCHANGED << pump_lock, OCR1B >>
       ELSE /\ \E u \in UnsignedCast(DutyStep(PulseError(pulse_count))) :
                  OCR1B' = ToUint16(OCR1B - u)
            /\ PORTD' = FuelLed(PORTD, PulseError(pulse_count))
            /\ UNCHANGED << opMode, PORTB, TCCR1A, TCCR1B, TCCR2, pump_lock,
                            alive_counter, run >>
    /\ pc' = "main_pwm"
    /\ UNCHANGED << i, desired_temp, saveTemps, analogIn, ADMUX, TCCR0, TIMSK,
                    TIFR, ICR1, pulse_count, pwm_count, ticks, ctCalls, everHot, accepted, passLog, held >>

---------------------------------------------------------------------------
(* main(), main.c:13-22 *)

\* Lines 19-21, reached after flowMeter() or when it is not called.
PwmCount ==
    /\ \/ pc = "main_pwm"
       \/ pc = "main_flow" /\ ~FlowCalled
    /\ pwm_count' = IF pwm_count + 1 > hand_pwm THEN 0 ELSE pwm_count + 1
    /\ pc' = "scan_begin"
    /\ UNCHANGED << i, opMode, desired_temp, saveTemps, analogIn, ADMUX, PORTB,
                    PORTD, TCCR0, TCCR1A, TCCR1B, TCCR2, TIMSK, TIFR, GICR, OCR1B,
                    ICR1, pump_lock, pump_count, pulse_count, alive_counter,
                    ticks, ctCalls, everHot, accepted, run, passLog, held >>

---------------------------------------------------------------------------
(* Interrupt handlers *)

Toggle(port, pin) == IF pin \in port THEN port \ {pin} ELSE port \cup {pin}

\* The run of the alive LED after a handler has written PORTD: a change of the
\* level starts a run, a tick without a change lengthens the run a handler began.
BeatRun(old, new, r) ==
    IF (Alive_LED \in new) # (Alive_LED \in old) THEN 0
    ELSE IF r < 0 THEN r ELSE r + 1

\* ISR(TIMER1_OVF_vect), HCU_Funcs.c:128-139: the heartbeat of mode 0, run at an
\* overflow of timer 1 while its interrupt is enabled and the timer is clocked.
Timer1Overflow ==
    /\ "TOIE1" \in TIMSK
    /\ TCCR1B \cap {"CS12", "CS11", "CS10"} # {}
    /\ alive_counter' = ToUint8(alive_counter + 1)
    /\ PORTD' = IF ToUint8(alive_counter + 1) % 2 = 1
                THEN Toggle(PORTD, Alive_LED) ELSE PORTD
    /\ PORTB' = Toggle(PORTB, Warm_LED)
    /\ run' = BeatRun(PORTD, PORTD', run)
    /\ UNCHANGED << pc, i, opMode, desired_temp, saveTemps, analogIn, ADMUX,
                    TCCR0, TCCR1A, TCCR1B, TCCR2, TIMSK, TIFR, GICR, OCR1B, ICR1,
                    pump_lock, pump_count, pulse_count, pwm_count, ctCalls,
                    everHot, accepted, passLog, held >>

\* The handler as one of the at most MaxTicks interrupts of a run.
ISR_TIMER1_OVF ==
    /\ ticks < MaxTicks
    /\ ticks' = ticks + 1
    /\ Timer1Overflow

\* The two thresholds of the hand-made prescaler: the count at which the LED
\* is switched off and the count at which it is switched on again.
AliveOff(mode) == IF mode = 1 THEN 2 ELSE 1

\* The LED of mode 2 switched on again after half the counts.
AliveOnShort(mode) == IF mode = 1 THEN 3 ELSE 9

AliveOn(mode) == IF mode = 1 THEN 3 ELSE 19

\* ISR(TIMER2_OVF_vect), HCU_Funcs.c:582-625: the heartbeat of modes 1 and 2,
\* run at an overflow of timer 2 while its interrupt is enabled.
Timer2Overflow ==
    /\ "TOIE2" \in TIMSK
    /\ IF alive_counter = AliveOff(opMode)
       THEN /\ PORTD' = assign_bit(PORTD, Alive_LED, 0)
            /\ alive_counter' = ToUint8(alive_counter + 1)
       ELSE IF alive_counter = AliveOn(opMode)
       THEN /\ PORTD' = assign_bit(PORTD, Alive_LED, 1)
            /\ alive_counter' = 0
       ELSE /\ PORTD' = PORTD
            /\ alive_counter' = ToUint8(alive_counter + 1)
    /\ run' = BeatRun(PORTD, PORTD', run)
    /\ UNCHANGED << pc, i, opMode, desired_temp, saveTemps, analogIn, ADMUX, PORTB,
                    TCCR0, TCCR1A, TCCR1B, TCCR2, TIMSK, TIFR, GICR, OCR1B, ICR1,
                    pump_lock, pump_count, pulse_count, pwm_count, ctCalls,
                    everHot, accepted, passLog, held >>

ISR_TIMER2_OVF ==
    /\ ticks < MaxTicks
    /\ ticks' = ticks + 1
    /\ Timer2Overflow

\* The handlers at every overflow, however many there are in a run.
Timer1Beat == Timer1Overflow /\ UNCHANGED ticks

Timer2Beat == Timer2Overflow /\ UNCHANGED ticks

\* The external interrupt 2 taken whatever GICR holds.
PulseMaskedNever(gicr) == FALSE

\* Lines 377 and 389: the edges of the flow meter interrupt only while INT2 is
\* set in GICR.
PulseMasked(gicr) == "INT2" \notin gicr

\* ISR(INT2_vect), HCU_Funcs.c:563-566: one edge of the flow meter beside those
\* of FlowWindow, at any moment at which the interrupt is enabled.
ISR_INT2 ==
    /\ ~PulseMasked(GICR)
    /\ ticks < MaxTicks
    /\ ticks' = ticks + 1
    /\ pulse_count' = ToUint8(pulse_count + 1)
    /\ accepted' = accepted + 1
    /\ UNCHANGED << pc, i, opMode, desired_temp, saveTemps, analogIn, ADMUX, PORTB,
                    PORTD, TCCR0, TCCR1A, TCCR1B, TCCR2, TIMSK, TIFR, GICR, OCR1B,
                    ICR1, pump_lock, pump_count, alive_counter, pwm_count,
                    ctCalls, everHot, run, passLog, held >>

---------------------------------------------------------------------------
(* Specifications *)

Foreground(scenes, pulses) ==
    \/ ScanBegin(scenes)
    \/ Convert
    \/ HeaterCase
    \/ SatisfiedCheck
    \/ ChangeTimersLed
    \/ ChangeTimersPump
    \/ ChangeTimersEnable
    \/ ChangeTimersAlive
    \/ SettleDelay
    \/ DelayElapsed
    \/ FlowOpen
    \/ FlowWindow(pulses)
    \/ FlowClose
    \/ PwmCount

Background ==
    \/ ISR_TIMER1_OVF
    \/ ISR_TIMER2_OVF

\* The thermal side in full: every scene in every pass, the flow near nominal.
Next == Foreground(Scenes, NominalPulses) \/ Background

Spec == Init /\ [][Next]_vars

\* The flow side in full: every channel warm from the start, every pulse count.
NextFlow == Foreground(HotScenes, FlowPulses) \/ Background

SpecFlow == Init /\ [][NextFlow]_vars

\* The fuel LED: pulse counts at the limit of the allowed error and beyond it.
NextLed == Foreground(HotScenes, LedPulses) \/ Background

SpecLed == Init /\ [][NextLed]_vars

\* The flow window edge by edge: single edges at any moment INT2 lets them in.
NextPulse == Foreground(HotScenes, EdgePulses) \/ Background \/ ISR_INT2

SpecPulse == Init /\ [][NextPulse]_vars

\* The heartbeat over a long run: the timer handlers at every overflow.
NextBeat == Foreground(BeatScenes, BeatPulses) \/ Timer1Beat \/ Timer2Beat

SpecBeat == Init /\ [][NextBeat]_vars

\* The loop under the assumption that every conversion completes and every
\* flow window ends: the foreground is never stopped for ever.
NextLive == Foreground(BeatScenes, BeatPulses) \/ Background

SpecLive == Init /\ [][NextLive]_vars /\ WF_vars(Foreground(BeatScenes, BeatPulses))

\* The conversion alone, over every code of the converter.
NextConv == ScanBegin(ConvScenes) \/ Convert

SpecConv == Init /\ [][NextConv]_vars

\* The steps of the warming mode.
ForegroundHeating(scenes) ==
    \/ ScanBegin(scenes)
    \/ Convert
    \/ HeaterCase
    \/ SatisfiedCheck
    \/ SettleDelay
    \/ DelayElapsed
    \/ PwmCount

\* The warming mode with the codes a 10-bit conversion delivers, the loop
\* never stopped for ever.
NextTenBit == ForegroundHeating(TenBitScenes) \/ ISR_TIMER1_OVF

SpecTenBit ==
    Init /\ [][NextTenBit]_vars /\ WF_vars(ForegroundHeating(TenBitScenes))

\* The writes of the heater cases to the ports as a read and a write between
\* which the handlers may run.
NextRmw == Foreground(BeatScenes, BeatPulses) \/ AssignBitLoad \/ Background

SpecRmw == Init /\ [][NextRmw]_vars

\* The program started with the store of line 79 fallen on a global.
SpecOverrun == InitOverrun /\ [][NextLive]_vars

---------------------------------------------------------------------------
(* Observations used by the properties *)

\* The heater of channel ch is driven: its pin is high, or, for the two PWM
\* heaters, the PWM is connected to the pin and its timer is clocked.
HeaterOn(ch) ==
    CASE ch = 0 -> BatPin \in PORTD
      [] ch = 1 -> HopperPin \in PORTD
      [] ch = 2 -> IF {"COM01", "COM00"} \cap TCCR0 # {}
                   THEN {"COM01", "COM00"} \subseteq TCCR0
                        /\ TCCR0 \cap {"CS02", "CS01", "CS00"} # {}
                   ELSE ECU_pin \in PORTB
      [] ch = 3 -> FLine1Pin \in PORTD
      [] ch = 4 -> IF {"COM21", "COM20"} \cap TCCR2 # {}
                   THEN {"COM21", "COM20"} \subseteq TCCR2
                        /\ TCCR2 \cap {"CS22", "CS21", "CS20"} # {}
                   ELSE Fline2Pin \in PORTD
      [] ch = 5 -> ESB_Pin \in PORTD

\* The six heater outputs as a whole.
HeaterOutputs == [ch \in 0..5 |-> HeaterOn(ch)]

\* The PWM of the pump runs: timer 1 is clocked and drives OC1B.
PumpPwmOn ==
    /\ TCCR1B \cap {"CS12", "CS11", "CS10"} # {}
    /\ {"COM1B1", "COM1B0"} \cap TCCR1A # {}

\* tempHeaterHelper() has evaluated the six channels of this pass.
Evaluated == pc \in {"check", "ct_led", "ct_pump", "ct_timer2", "ct_alive", "delay"}

\* The step that closes a flow window (flowMeter() from line 389 to its end).
WindowCloses == pc = "flow_wait" /\ pc' = "main_pwm"

\* The step that opens a flow window (the call of flowMeter(), lines 376-385).
WindowOpens == pc = "main_flow" /\ pc' = "flow_wait"

\* A window closed by the adjusting branch (lines 430-443).
AdjustingWindow == WindowCloses /\ pump_lock = 0 /\ opMode' = 1

\* The fuel LED after and before a step.
FuelSteady == Fuel_LED \in PORTD'

FuelToggled == (Fuel_LED \in PORTD') # (Fuel_LED \in PORTD)

\* The step of an interrupt handler in the specifications that count them.
HandlerStep == ticks' # ticks

\* The step of a heartbeat handler: the only steps that change alive_counter
\* and leave the foreground where it is.
BeatStep == alive_counter' # alive_counter /\ pc' = pc

\* The foreground is inside change_timers().
Reconfiguring == pc \in {"ct_led", "ct_pump", "ct_timer2", "ct_alive"}

\* Timer 1 has no clock and is disconnected from OC1B; INT2 is disabled and
\* the foreground is not in flowMeter().
PumpQuiet ==
    /\ TCCR1B \cap {"CS12", "CS11", "CS10"} = {}
    /\ {"COM1B1", "COM1B0"} \cap TCCR1A = {}
    /\ "INT2" \notin GICR
    /\ pc # "flow_wait"

\* The log of a pass that has converted and then evaluated channels 0 to 5.
FullPass ==
    [k \in 1..12 |-> IF k <= 6 THEN << "convert", k - 1 >>
                               ELSE << "evaluate", k - 7 >>]

\* The all-satisfied check has been made in the pass with this log.
Checked(log) == \E k \in 1..Len(log) : log[k][1] = "check"

Abs(x) == IF x < 0 THEN -x ELSE x

\* The inverse of the conversion: the code nearest to a temperature.
Slope == ActTemp(1) - ActTemp(0)

Inverse(t) == (2 * (t - ActTemp(0)) + Slope) \div (2 * Slope)

\* -79.6 degF, the temperature of 0 V (line 182).
CalMin == -((796 * TempUnit) \div 10)

\* The ADC channel documented for each slot of saveTemps (HCU_Funcs.h:37-53).
DocChannel(slot) ==
    CASE slot = 0 -> 0
      [] slot = 1 -> 2
      [] slot = 2 -> 3
      [] slot = 3 -> 4
      [] slot = 4 -> 5
      [] slot = 5 -> 6

\* A step of tempHeaterHelper()'s loop.
HeaterStep == pc = "heater" /\ passLog' # passLog

\* The ticks the alive LED is on and off in one period of each mode
\* (HCU_Funcs.h:8-10: 1/1, 0.75/0.25 and 0.1/0.9 seconds).
OnTicks(mode) == CASE mode = 0 -> 2 [] mode = 1 -> 3 [] mode = 2 -> 2

OffTicks(mode) == CASE mode = 0 -> 2 [] mode = 1 -> 1 [] mode = 2 -> 18

---------------------------------------------------------------------------
(* Properties *)

\* C1: the step that closes a flow window sets opMode to 2 if and only if the
\* lock-out is over (pump_lock = 0 on entry) and the window counted no pulse.
C1_ExhaustedIffZeroPulses ==
    [][WindowCloses => ((opMode' = 2) <=> (pump_lock = 0 /\ pulse_count = 0))]_vars

\* C2: in every mode, once tempHeaterHelper() has evaluated a pass in which the
\* battery reading is above TempBat, the battery heater pin is low.
C2_BatteryCutOff ==
    (Evaluated /\ saveTemps[0] > Setpoint(0)) => BatPin \notin PORTD

\* C2 happens: the battery reads too hot in a pass of the pumping mode in
\* which another channel reads cold, and the evaluation is over.
C2_Witness ==
    /\ pc = "delay"
    /\ opMode = 1
    /\ saveTemps[0] > Setpoint(0)
    /\ saveTemps[5] < Setpoint(5)
    /\ BatPin \notin PORTD

\* C3: no step lowers opMode; a step that changes it raises it by one.
C3_ModeNeverRegresses ==
    [][opMode' = opMode \/ opMode' = opMode + 1]_vars

\* C3 happens: the mode has gone through 0, 1 and 2 and the loop runs on.
C3_Witness == opMode = 2 /\ pc = "check" /\ AllSatisfied(desired_temp)

\* C4: change_timers() is called at most once, and from the edge on the
\* all-satisfied check stays true.
C4_EdgeOnce ==
    /\ ctCalls <= 1
    /\ opMode >= 1 => AllSatisfied(desired_temp)

\* C4 happens: the check is made again, and is true, in a pass after the edge.
C4_Witness ==
    /\ pc = "check"
    /\ ctCalls = 1
    /\ opMode = 1
    /\ pump_count < PumpWindows
    /\ AllSatisfied(desired_temp)

\* C5 as claimed: when change_timers() is called, every channel's reading of
\* that pass is above its setpoint.
C5_AllAboveAtEdge ==
    pc = "ct_led" => \A ch \in 0..5 : saveTemps[ch] > Setpoint(ch)

\* C5 amended: when change_timers() is called, every channel has had a reading
\* above its setpoint in that pass or an earlier one.
C5_AllEverAboveAtEdge == ctCalls >= 1 => everHot = 0..5

\* C5 amended happens: the edge fires in a pass in which a channel that was
\* satisfied earlier reads below its setpoint.
C5_Witness ==
    /\ pc = "ct_led"
    /\ \E ch \in 0..5 : saveTemps[ch] < Setpoint(ch)

\* C6: in every mode, a channel that reads below its setpoint has its heater
\* driven once the pass is evaluated.
C6_ColdChannelHeated ==
    Evaluated => \A ch \in 0..5 : saveTemps[ch] < Setpoint(ch) => HeaterOn(ch)

\* C7: the duty threshold of the pump stays within [0, ICR1].
C7_DutyWithinPeriod == 0 <= OCR1B /\ OCR1B <= ICR1

\* C8: in an adjusting window, fewer pulses than desired never raise OCR1B
\* (never lower the duty) and more pulses than desired never lower OCR1B.
C8_DirectionMatchesError ==
    [][(WindowCloses /\ pump_lock = 0 /\ opMode' = 1)
        => /\ pulse_count < desired_pulses => OCR1B' <= OCR1B
           /\ pulse_count > desired_pulses => OCR1B' >= OCR1B]_vars

\* C9: while at most LockWindows windows have been closed, OCR1B has its
\* initial value and pump_lock the number of lock-out windows still to come;
\* afterwards pump_lock is 0.
C9_LockOut ==
    (opMode = 1 /\ pc \notin {"ct_led", "ct_pump"})
        => IF pump_count >= PumpWindows - LockWindows
           THEN /\ OCR1B = InitialDuty(ICR1)
                /\ pump_lock = pump_count - (PumpWindows - LockWindows)
           ELSE pump_lock = 0

\* C9 happens: the last window of the lock-out counted 255 pulses, far from
\* the desired count, and OCR1B is still the initial value.
C9_Witness ==
    /\ pc = "main_pwm"
    /\ pump_count = PumpWindows - LockWindows
    /\ pump_lock = 0
    /\ pulse_count = 255
    /\ OCR1B = InitialDuty(ICR1)

C11_ExhaustedTerminal ==
    [][opMode = 2 => (opMode' = 2 /\ PumpQuiet /\ PumpQuiet')]_vars

\* C11 happens: a pass of mode 2 has come to the call of flowMeter() in
\* main(), with every channel satisfied.
C11_Witness ==
    /\ opMode = 2
    /\ pc = "main_flow"
    /\ pwm_count = hand_pwm
    /\ AllSatisfied(desired_temp)
    /\ PumpQuiet

\* C12: in every adjusting window the fuel LED is left on when the distance
\* between desired_pulses and the count is within the allowed error and is
\* toggled otherwise; desired_pulses is 170, so that the counts 165..175 leave
\* it on and all others toggle it.
C12_FuelLedIndicator ==
    [][AdjustingWindow
        => /\ IF Abs(desired_pulses - pulse_count) <= pulse_error_allow
              THEN FuelSteady ELSE FuelToggled
           /\ desired_pulses = 170
           /\ IF pulse_count \in 165..175 THEN FuelSteady ELSE FuelToggled]_vars

C14_WarmLedOn == (opMode >= 1 /\ pc # "ct_led") => Warm_LED \in PORTB

\* C15 as claimed: only the steps of interrupt handlers change alive_counter,
\* and no step of a handler writes opMode, desired_temp or saveTemps.
C15_ExclusiveOwnership ==
    [][/\ alive_counter' # alive_counter => HandlerStep
       /\ HandlerStep => UNCHANGED << opMode, desired_temp, saveTemps >>]_vars

\* C15 amended: alive_counter is changed by the heartbeat handlers, of which
\* at most one is enabled at a time, and by the foreground at the two mode
\* edges (the end of change_timers() and the exhaustion branch of flowMeter());
\* the pulse handler leaves it alone; no handler writes opMode, desired_temp
\* or saveTemps.
C15_Ownership ==
    [][/\ alive_counter' # alive_counter
            => \/ HandlerStep /\ pulse_count' = pulse_count
               \/ pc = "ct_alive"
               \/ opMode = 1 /\ opMode' = 2
       /\ HandlerStep => UNCHANGED << opMode, desired_temp, saveTemps >>
       /\ ~({"TOIE1", "TOIE2"} \subseteq TIMSK')]_vars

\* C15 amended happens: the foreground is about to reset a counter the
\* heartbeat handlers have advanced.
C15_Witness ==
    /\ pc = "ct_alive"
    /\ alive_counter > 0
    /\ "TOIE2" \in TIMSK
    /\ "TOIE1" \notin TIMSK

C17_CoarseDuty ==
    (pc = "delay" /\ opMode \in {1, 2} /\ pump_count < PumpWindows)
        => /\ saveTemps[2] < Setpoint(2)
                => ((ECU_pin \in PORTB) <=> (pwm_count = hand_pwm))
           /\ saveTemps[4] < Setpoint(4)
                => ((Fline2Pin \in PORTD) <=> (pwm_count = hand_pwm))

\* C18: no step taken while the channels are converted or evaluated changes
\* the mode, and a pass in which the all-satisfied check has been made has
\* converted the six channels, then evaluated the six channels, then made the
\* check once.
C18_CheckOncePerPass ==
    [][/\ pc \in {"convert", "heater"} => opMode' = opMode
       /\ Checked(passLog') => passLog' = Append(FullPass, << "check", 0 >>)]_vars

\* C18 happens: the check of a complete pass has signalled the mode edge.
C18_Witness ==
    /\ pc = "ct_led"
    /\ opMode = 1
    /\ passLog = Append(FullPass, << "check", 0 >>)

\* C19: flowMeter() is entered only in mode 1, INT2 is enabled only while the
\* foreground waits in the flow window, which happens only in mode 1, and
\* OCR1B is changed only by steps taken in mode 1.
C19_ControllerOnlyPumping ==
    [][/\ WindowOpens => opMode = 1
       /\ "INT2" \in GICR => pc = "flow_wait"
       /\ "INT2" \in GICR' => pc' = "flow_wait"
       /\ pc = "flow_wait" => opMode = 1
       /\ OCR1B' # OCR1B => opMode = 1]_vars

\* C19 happens: a window is open in mode 1 after the controller has moved the
\* duty away from its initial value.
C19_Witness ==
    /\ pc = "flow_wait"
    /\ opMode = 1
    /\ "INT2" \in GICR
    /\ OCR1B # InitialDuty(ICR1)

\* C20: when every conversion completes and every flow window ends, passes
\* begin again and again and the channels are evaluated again and again.
C20_PassesForever == []<>(pc = "scan_begin") /\ []<>(pc = "check")

\* C20 happens: the pass that held the first flow window is over and the next
\* one begins.
C20_Witness ==
    /\ pc = "scan_begin"
    /\ opMode = 1
    /\ pump_count = PumpWindows - 1
    /\ "TOV0" \in TIFR

\* C21: the temperatures of two neighbouring codes differ by the constant slope
\* of the conversion, so the conversion is affine and strictly increasing;
\* code 0 gives -79.6 degF and no code gives more than code 1023; the inverse
\* returns the code from the temperature, also when the temperature is off by
\* the rounding of the float arithmetic.
C21_ConversionInvertible ==
    pc = "heater"
        => /\ saveTemps[1] - saveTemps[0] = Slope
           /\ Slope > 0
           /\ analogIn[0] = 0 => saveTemps[0] = CalMin
           /\ CalMin <= saveTemps[0]
           /\ saveTemps[1] <= ActTemp(MaxCode)
           /\ \A e \in (-RoundErr)..RoundErr :
                 /\ Inverse(saveTemps[0] + e) = analogIn[0]
                 /\ Inverse(saveTemps[1] + e) = analogIn[1]

\* C21 happens: the codes 1022 and 1023 have been converted.
C21_Witness ==
    /\ pc = "heater"
    /\ analogIn[1] = MaxCode
    /\ analogIn[0] = MaxCode - 1
    /\ saveTemps[1] > saveTemps[0]

\* C22: a pass begins on multiplexer channel 0, and once it has converted, the
\* slots 0 to 5 of saveTemps hold the temperatures of the ADC inputs 0, 2, 3,
\* 4, 5 and 6.
C22_DocumentedChannels ==
    /\ (pc = "convert" /\ i = 0) => ADMUX = 0
    /\ pc = "heater"
        => \A slot \in 0..5 :
              saveTemps[slot] = ActTemp(analogIn[DocChannel(slot)])

\* C23: flowMeter() is entered only with windows left; the step that closes a
\* window lowers pump_count by one to the index it uses for flow_save and
\* pulse_count_array, which lies in 0..38; nothing else changes pump_count but
\* the one call of change_timers(), that sets it to 39.
C23_BoundedPumping ==
    [][/\ WindowOpens => pump_count \in 1..PumpWindows
       /\ WindowCloses => /\ pump_count' = pump_count - 1
                          /\ pump_count' \in 0..(PumpWindows - 1)
       /\ pump_count' # pump_count
            => WindowCloses \/ (pc = "ct_pump" /\ pump_count' = PumpWindows)
       /\ ctCalls' <= 1]_vars

\* C23 happens: the last of the 39 windows has been closed with index 0.
C23_Witness ==
    /\ pc = "main_pwm"
    /\ pump_count = 0
    /\ pump_lock = 0
    /\ opMode = 2
    /\ ctCalls = 1

\* C24: when from some pass on every input delivers the greatest code of the
\* converter, all six bits of desired_temp become set and the mode leaves 0.
C24_PumpingReachable ==
    <>[](analogIn = [c \in 0..7 |-> MaxCode])
        => <>(AllSatisfied(desired_temp) /\ opMode # 0)

\* C25: a step of a heater case leaves the alive LED and the warming LED as
\* they are, whatever the handlers did since the case read the port, and a
\* step of a handler changes no pin of PORTD but the alive LED and no pin of
\* PORTB but the warming LED.
C25_NoLostUpdate ==
    [][/\ HeaterStep => /\ (Alive_LED \in PORTD') = (Alive_LED \in PORTD)
                        /\ (Warm_LED \in PORTB') = (Warm_LED \in PORTB)
       /\ HandlerStep => /\ PORTD' \ {Alive_LED} = PORTD \ {Alive_LED}
                         /\ PORTB' \ {Warm_LED} = PORTB \ {Warm_LED}]_vars

\* C26: the step taken when tempHeaterHelper() has returned begins the delay
\* in mode 0 and returns to main() without it in mode 1, the pass of the mode
\* edge included; the delay begins at no other place.
C26_SettleDelay ==
    [][/\ (pc = "delay" /\ pc' # pc)
            => /\ opMode = 0 => pc' = "settle"
               /\ opMode = 1 => pc' = "main_flow"
       /\ pc' = "settle" => pc \in {"delay", "settle"}]_vars

\* C26 happens: the pass in which change_timers() was called has returned to
\* main() without the delay.
C26_Witness ==
    /\ pc = "main_flow"
    /\ opMode = 1
    /\ ctCalls = 1
    /\ pump_count = PumpWindows

\* C27: every index of saveTemps used by Initial(), by the conversion and by
\* the evaluation lies in 0..5.
C27_IndicesInBounds ==
    \A k \in 1..Len(passLog) :
        passLog[k][1] \in {"init", "convert", "evaluate"} => passLog[k][2] \in 0..5

====
